---- MODULE Spec2Model ----
(***************************************************************************)
(* State-machine model of the MobileObjectDetection component              *)
(* (src/src/app/page.tsx): camera acquisition with fallback, the           *)
(* requestAnimationFrame detection loop, capture / resume, and disposal.   *)
(* Every await in the source is a point where the model lets other         *)
(* callbacks run; the code between two awaits is one atomic action.        *)
(***************************************************************************)
EXTENDS Integers, Sequences, FiniteSets, TLC

\* ---------------------------------------------------------------- bounds
MaxReqs  == 3   \* getUserMedia requests issued during one run
MaxLoops == 2   \* detectObjects closures created during one run
MaxDets  == 1   \* detections in one Detection Set

ReqIds  == 1..MaxReqs
LoopIds == 1..MaxLoops

\* ------------------------------------------------------- error messages
NoError      == "null"
ErrCamera    == "camera start failed"        \* page.tsx:103,106
ErrDetect    == "error during detection"     \* page.tsx:327
ErrLoad      == "network error"              \* page.tsx:285 (err.message)

\* ----------------------------------------------------- console messages
LogNone      == "none"
LogNotReady  == "video not ready"            \* page.tsx:158
LogCaptured  == "capture succeeded"          \* page.tsx:211

\* ------------------------------------------------------------ detections
\* What model.detect returns: cocossd.DetectedObject values.
Predictions ==
  { [class |-> "person", score |-> 90, bbox |-> <<0, 0, 2, 2>>],
    [class |-> "cup",    score |-> 55, bbox |-> <<1, 1, 1, 1>>] }

RECURSIVE SeqsUpTo(_, _)
SeqsUpTo(S, n) ==
  IF n = 0 THEN { <<>> }
  ELSE LET prev == SeqsUpTo(S, n - 1)
       IN  prev \cup { Append(s, x) : s \in { t \in prev : Len(t) = n - 1 }, x \in S }

DetectionSets == SeqsUpTo(Predictions, MaxDets)

\* predictions.map(pred => ({class, score, bbox}))
ToDetectedObjects(preds) ==
  [ i \in DOMAIN preds |->
      [class |-> preds[i].class, score |-> preds[i].score, bbox |-> preds[i].bbox] ]

\* ------------------------------------------------------ drawing surfaces
\* A 2D surface: whether it holds a video frame, and the boxes drawn on it
\* in drawing order.
BlankSurface == [frame |-> FALSE, boxes |-> <<>>]

\* ctx.drawImage(video, 0, 0, w, h): the opaque frame covers the surface.
DrawImage(surface) == [frame |-> TRUE, boxes |-> <<>>]

\* ctx.clearRect(0, 0, w, h)
ClearRect(surface) == [frame |-> FALSE, boxes |-> <<>>]

RECURSIVE DrawBoxes(_, _)
DrawBoxes(surface, preds) ==
  IF preds = <<>> THEN surface
  ELSE DrawBoxes([surface EXCEPT !.boxes = Append(@, Head(preds))], Tail(preds))

\* drawDetections(ctx, predictions): clear, then draw every prediction.
drawDetections(surface, preds) == DrawBoxes(ClearRect(surface), preds)

\* canvas.toDataURL('image/png'): the encoded pixels of the surface.
NoImage == [kind |-> "null"]
toDataURL(surface) == [kind |-> "png", frame |-> surface.frame, boxes |-> surface.boxes]

\* ----------------------------------------------------------- Surface Sizer
MaxDim == 2   \* largest width / height of the enumerated video and container sizes

\* The sizes of the worked example and the sizes the enumeration draws from.
ExampleVideo     == <<1920, 1080>>
ExampleContainer == <<800, 600>>
FrontVideo       == <<640, 480>>
SmallSizes       == { <<w, h>> : w \in 1..MaxDim, h \in 1..MaxDim }
VideoSizes       == SmallSizes \cup {ExampleVideo}
ContainerSizes   == SmallSizes \cup {ExampleContainer}

\* A new canvas element is 300 x 150; an element without inline size has no style.
DefaultCanvasSize == <<300, 150>>
NoStyle == <<>>
NoVideoSize == <<0, 0>>

\* JavaScript numbers are modelled as exact rationals <<numerator, denominator>>.
RECURSIVE GCD(_, _)
GCD(a, b) == IF b = 0 THEN a ELSE GCD(b, a % b)

Rat(n, d) == LET g == GCD(n, d) IN <<n \div g, d \div g>>
RatMul(k, q) == Rat(k * q[1], q[2])
RatLeq(p, q) == p[1] * q[2] <= q[1] * p[2]
RatMin(p, q) == IF RatLeq(p, q) THEN p ELSE q
RatMax(p, q) == IF RatLeq(p, q) THEN q ELSE p

\* A scale that fills the container on the larger axis.
Scale_Max(video, container) ==
  RatMax(Rat(container[1], video[1]), Rat(container[2], video[2]))

\* Math.min(containerWidth / videoWidth, containerHeight / videoHeight)
Scale(video, container) ==
  RatMin(Rat(container[1], video[1]), Rat(container[2], video[2]))

\* scaledWidth = videoWidth * scale, scaledHeight = videoHeight * scale
ScaledSize(video, container) ==
  LET scale == Scale(video, container)
  IN  <<RatMul(video[1], scale), RatMul(video[2], scale)>>

\* A canvas whose resolution follows the container instead of the video.
CanvasIntrinsicSize_Container(video, container) == container

\* canvas.width = videoWidth; canvas.height = videoHeight
CanvasIntrinsicSize(video, container) == video

VARIABLES
  model,            \* useState model: TRUE once setModel(loadedModel) ran
  isLoading,        \* useState isLoading
  initTF,           \* "pending" | "done": the initTF promise
  error,            \* useState error
  isFrontCamera,    \* useState isFrontCamera
  streamRef,        \* streamRef.current: 0 = null, else a request id
  gum,              \* per getUserMedia request: its state and the call it belongs to
  srcObject,        \* videoRef.current.srcObject: 0 = none
  videoReady,       \* videoRef.current.readyState === 4
  mounted,          \* FALSE after disposal (refs are null, setState is dropped)
  detectedObjects,  \* useState detectedObjects
  lastPredictions,  \* useState lastPredictions
  isPaused,         \* useState isPaused
  capturedImage,    \* useState capturedImage
  canvas,           \* what is drawn on the overlay canvas
  loops,            \* per detectObjects closure: its position
  effectLoop,       \* the closure of the loop effect whose cleanup has not run; 0 = none
  captureLog,       \* the last console message of captureImage
  downloads,        \* the files the last saveImage call asked the browser to download
  published,        \* history: the Detection Set model.detect last returned to the loop
  cameras,          \* the device: native resolution of the rear and of the front camera
  containerSize,    \* clientWidth, clientHeight of the video's parent element
  videoSize,        \* videoWidth, videoHeight; <<0, 0>> until the metadata is loaded
  canvasSize,       \* canvas.width, canvas.height (intrinsic resolution)
  videoStyle,       \* video.style.width, height (px, as rationals) or NoStyle
  canvasStyle       \* canvas.style.width, height (px, as rationals) or NoStyle

vars == <<model, isLoading, initTF, error, isFrontCamera, streamRef, gum, srcObject,
          videoReady, mounted, detectedObjects, lastPredictions, isPaused,
          capturedImage, canvas, loops, effectLoop, captureLog, downloads,
          published, cameras, containerSize, videoSize, canvasSize, videoStyle,
          canvasStyle>>

\* The device, the layout and the geometry of the video and of the canvas.
sizeVars == <<cameras, containerSize, videoSize, canvasSize, videoStyle, canvasStyle>>

\* Outputs of captureImage and saveImage.
outVars == <<captureLog, downloads>>

\* A setState call on an unmounted component is dropped by React.
SetState(old, new) == IF mounted THEN new ELSE old

\* --------------------------------------------------------------- camera
NoReq == [st |-> "none", front |-> FALSE, fallback |-> FALSE, toggle |-> FALSE]

FreeReqs == { r \in ReqIds : gum[r].st = "none" }
NextReq  == CHOOSE r \in FreeReqs : \A q \in FreeReqs : r <= q

\* A setupCamera that leaves the held stream running.
StopTracks_Nothing(g, ref) == g

\* streamRef.current.getTracks().forEach(track => track.stop())
StopTracks(g, ref) ==
  IF ref # 0 /\ g[ref].st = "live" THEN [g EXCEPT ![ref].st = "stopped"] ELSE g

\* setupCamera up to its await: stop the held stream, issue getUserMedia.
SetupCameraStart(g, ref, useFrontCamera, isFallback, fromToggle) ==
  [ StopTracks(g, ref) EXCEPT
      ![NextReq] = [st |-> "pending", front |-> useFrontCamera,
                    fallback |-> isFallback, toggle |-> fromToggle] ]

OpenStreams == { r \in ReqIds : gum[r].st = "live" }
Pending     == { r \in ReqIds : gum[r].st = "pending" }

\* The state after mount, whatever the device and the layout are.
InitComponent ==
  /\ model = FALSE
  /\ isLoading = TRUE
  /\ initTF = "pending"
  /\ error = NoError
  /\ isFrontCamera = FALSE
  /\ streamRef = 0
  /\ gum = [ r \in ReqIds |->
               IF r = 1 THEN [st |-> "pending", front |-> FALSE,
                              fallback |-> FALSE, toggle |-> FALSE]
               ELSE NoReq ]
  /\ srcObject = 0
  /\ videoReady = FALSE
  /\ mounted = TRUE
  /\ detectedObjects = <<>>
  /\ lastPredictions = <<>>
  /\ isPaused = FALSE
  /\ capturedImage = NoImage
  /\ canvas = BlankSurface
  /\ loops = [ l \in LoopIds |-> "none" ]
  /\ effectLoop = 0
  /\ captureLog = LogNone
  /\ downloads = <<>>
  /\ published = <<>>
  /\ videoSize = NoVideoSize
  /\ canvasSize = DefaultCanvasSize
  /\ videoStyle = NoStyle
  /\ canvasStyle = NoStyle

Init ==
  /\ InitComponent
  /\ cameras = [rear |-> ExampleVideo, front |-> FrontVideo]
  /\ containerSize = ExampleContainer

\* The native resolution of the stream of request r.
NativeSize(r) == IF gum[r].front THEN cameras.front ELSE cameras.rear

\* getUserMedia resolves: the rest of setupCamera's try block.
GumResolve(r) ==
  /\ gum[r].st = "pending"
  /\ gum' = [gum EXCEPT ![r].st = "live"]
  /\ streamRef' = r
  /\ srcObject' = IF mounted THEN r ELSE srcObject
  /\ videoReady' = IF mounted THEN FALSE ELSE videoReady
  /\ videoSize' = IF mounted THEN NoVideoSize ELSE videoSize
  /\ error' = SetState(error, NoError)
  /\ isFrontCamera' = IF gum[r].fallback THEN SetState(isFrontCamera, TRUE) ELSE isFrontCamera
  /\ UNCHANGED <<model, isLoading, initTF, mounted, detectedObjects, lastPredictions,
                 isPaused, capturedImage, canvas, loops, effectLoop>>
  /\ UNCHANGED outVars
  /\ UNCHANGED published
  /\ UNCHANGED <<cameras, containerSize, canvasSize, videoStyle, canvasStyle>>

\* A fallback that is attempted whatever the requested facing mode was.
ShouldFallback_EitherMode(useFrontCamera) == TRUE

\* if (!useFrontCamera): only a failed rear request is retried with the front camera.
ShouldFallback(useFrontCamera) == ~useFrontCamera

\* getUserMedia rejects: setupCamera's catch block.
GumReject(r) ==
  /\ gum[r].st = "pending"
  /\ IF ShouldFallback(gum[r].front)
       THEN \* rear failed: setupCamera(true) runs up to its own await
            /\ FreeReqs # {}
            /\ gum' = SetupCameraStart([gum EXCEPT ![r].st = "failed"], streamRef,
                                       TRUE, TRUE, gum[r].toggle)
            /\ UNCHANGED <<error, isFrontCamera>>
       ELSE /\ gum' = [gum EXCEPT ![r].st = "failed"]
            /\ error' = SetState(error, ErrCamera)
            /\ isFrontCamera' =
                 IF gum[r].fallback THEN SetState(isFrontCamera, TRUE) ELSE isFrontCamera
  /\ UNCHANGED <<model, isLoading, initTF, streamRef, srcObject, videoReady, mounted,
                 detectedObjects, lastPredictions, isPaused, capturedImage, canvas,
                 loops, effectLoop>>
  /\ UNCHANGED outVars
  /\ UNCHANGED published
  /\ UNCHANGED sizeVars

\* handleToggleCamera up to the await inside setupCamera.
HandleToggleCamera ==
  /\ mounted
  /\ ~isPaused
  /\ FreeReqs # {}
  /\ isFrontCamera' = ~isFrontCamera
  /\ gum' = SetupCameraStart(gum, streamRef, ~isFrontCamera, FALSE, TRUE)
  /\ UNCHANGED <<model, isLoading, initTF, error, streamRef, srcObject, videoReady,
                 mounted, detectedObjects, lastPredictions, isPaused, capturedImage,
                 canvas, loops, effectLoop>>
  /\ UNCHANGED outVars
  /\ UNCHANGED published
  /\ UNCHANGED sizeVars

\* ---------------------------------------------------------- video element
\* The video element has read the resolution of its srcObject: the
\* onloadedmetadata handler installed by setupCamera runs.  Assigning
\* canvas.width / canvas.height also clears the canvas.
LoadedMetadata ==
  /\ mounted
  /\ srcObject # 0
  /\ gum[srcObject].st = "live"
  /\ videoSize = NoVideoSize
  /\ videoSize' = NativeSize(srcObject)
  /\ videoStyle' = ScaledSize(videoSize', containerSize)
  /\ canvasStyle' = ScaledSize(videoSize', containerSize)
  /\ canvasSize' = CanvasIntrinsicSize(videoSize', containerSize)
  /\ canvas' = BlankSurface
  /\ UNCHANGED <<model, isLoading, initTF, error, isFrontCamera, streamRef, gum,
                 srcObject, videoReady, mounted, detectedObjects, lastPredictions,
                 isPaused, capturedImage, loops, effectLoop, cameras, containerSize>>
  /\ UNCHANGED outVars
  /\ UNCHANGED published

\* The video element reaches readyState 4 once its srcObject delivers frames.
VideoCanPlay ==
  /\ mounted
  /\ ~videoReady
  /\ videoSize # NoVideoSize
  /\ srcObject # 0
  /\ gum[srcObject].st = "live"
  /\ videoReady' = TRUE
  /\ UNCHANGED <<model, isLoading, initTF, error, isFrontCamera, streamRef, gum,
                 srcObject, mounted, detectedObjects, lastPredictions, isPaused,
                 capturedImage, canvas, loops, effectLoop>>
  /\ UNCHANGED outVars
  /\ UNCHANGED published
  /\ UNCHANGED sizeVars

\* After the tracks of its srcObject were stopped the element may lose its frame.
VideoStall ==
  /\ mounted
  /\ videoReady
  /\ gum[srcObject].st = "stopped"
  /\ videoReady' = FALSE
  /\ UNCHANGED <<model, isLoading, initTF, error, isFrontCamera, streamRef, gum,
                 srcObject, mounted, detectedObjects, lastPredictions, isPaused,
                 capturedImage, canvas, loops, effectLoop>>
  /\ UNCHANGED outVars
  /\ UNCHANGED published
  /\ UNCHANGED sizeVars

\* ------------------------------------------------------- detection loop
FreeLoops == { l \in LoopIds : loops[l] = "none" }
NextLoop  == CHOOSE l \in FreeLoops : \A k \in FreeLoops : l <= k

InFlight == { l \in LoopIds : loops[l] = "inflight" }

\* Cleanup of the loop effect: if (animationId) cancelAnimationFrame(animationId).
\* Only a callback that has not fired yet can be cancelled.
LoopCleanup(ls, el) ==
  IF el # 0 /\ ls[el] = "raf" THEN [ls EXCEPT ![el] = "cancelled"] ELSE ls

\* One call of detectObjects up to its await (or to its end when no frame is ready).
DetectObjectsCall(ready) == IF ready THEN "inflight" ELSE "raf"

\* A loop effect that runs its body on the first change of its dependencies only.
LoopEffect_FirstRunOnly(ls, m, paused) ==
  IF ~m \/ ~mounted \/ paused \/ FreeLoops # LoopIds
    THEN <<ls, 0>>
    ELSE <<[ls EXCEPT ![NextLoop] = DetectObjectsCall(videoReady)], NextLoop>>

\* The loop effect body for the dependency values (m, paused), after the cleanup
\* of the previous effect instance: <<loops, effectLoop>>.
LoopEffect(ls, m, paused) ==
  IF ~m \/ ~mounted \/ paused
    THEN <<ls, 0>>
    ELSE <<[ls EXCEPT ![NextLoop] = DetectObjectsCall(videoReady)], NextLoop>>

\* initTF: tf.ready() and cocossd.load() resolve.
ModelLoadOk ==
  /\ initTF = "pending"
  /\ initTF' = "done"
  /\ model' = SetState(model, TRUE)
  /\ isLoading' = SetState(isLoading, FALSE)
  /\ LET eff == LoopEffect(LoopCleanup(loops, effectLoop), model', isPaused)
     IN  /\ loops' = eff[1]
         /\ effectLoop' = eff[2]
  /\ UNCHANGED <<error, isFrontCamera, streamRef, gum, srcObject, videoReady, mounted,
                 detectedObjects, lastPredictions, isPaused, capturedImage, canvas>>
  /\ UNCHANGED outVars
  /\ UNCHANGED published
  /\ UNCHANGED sizeVars

\* initTF: tf.ready() or cocossd.load() rejects.
ModelLoadFail ==
  /\ initTF = "pending"
  /\ initTF' = "done"
  /\ error' = SetState(error, ErrLoad)
  /\ isLoading' = SetState(isLoading, FALSE)
  /\ UNCHANGED <<model, isFrontCamera, streamRef, gum, srcObject, videoReady, mounted,
                 detectedObjects, lastPredictions, isPaused, capturedImage, canvas,
                 loops, effectLoop>>
  /\ UNCHANGED outVars
  /\ UNCHANGED published
  /\ UNCHANGED sizeVars

\* The requestAnimationFrame callback of closure l fires: detectObjects runs
\* up to model.detect, or re-arms itself when no frame is ready.
LoopTick(l) ==
  /\ loops[l] = "raf"
  /\ loops' = [loops EXCEPT ![l] = DetectObjectsCall(mounted /\ videoReady)]
  /\ UNCHANGED <<model, isLoading, initTF, error, isFrontCamera, streamRef, gum,
                 srcObject, videoReady, mounted, detectedObjects, lastPredictions,
                 isPaused, capturedImage, canvas, effectLoop>>
  /\ UNCHANGED outVars
  /\ UNCHANGED published
  /\ UNCHANGED sizeVars

\* A loop that does not store what it detected.
PublishPredictions_Stale(current, predictions) == current

\* setLastPredictions(predictions)
PublishPredictions(current, predictions) == predictions

\* model.detect of closure l resolves with predictions: the rest of the try block.
DetectResolve(l, predictions) ==
  /\ loops[l] = "inflight"
  /\ published' = predictions
  /\ lastPredictions' = SetState(lastPredictions, PublishPredictions(lastPredictions, predictions))
  /\ IF mounted
       THEN /\ canvas' = drawDetections(canvas, predictions)
            /\ detectedObjects' = ToDetectedObjects(predictions)
            /\ loops' = [loops EXCEPT ![l] = "raf"]
       ELSE \* canvasRef.current is null: if (!ctx) return
            /\ loops' = [loops EXCEPT ![l] = "returned"]
            /\ UNCHANGED <<canvas, detectedObjects>>
  /\ UNCHANGED <<model, isLoading, initTF, error, isFrontCamera, streamRef, gum,
                 srcObject, videoReady, mounted, isPaused, capturedImage, effectLoop>>
  /\ UNCHANGED outVars
  /\ UNCHANGED sizeVars

\* model.detect of closure l rejects: the catch block.
DetectReject(l) ==
  /\ loops[l] = "inflight"
  /\ loops' = [loops EXCEPT ![l] = "failed"]
  /\ error' = SetState(error, ErrDetect)
  /\ UNCHANGED <<model, isLoading, initTF, isFrontCamera, streamRef, gum, srcObject,
                 videoReady, mounted, detectedObjects, lastPredictions, isPaused,
                 capturedImage, canvas, effectLoop>>
  /\ UNCHANGED outVars
  /\ UNCHANGED published
  /\ UNCHANGED sizeVars

\* ------------------------------------------------------ capture / resume
\* The buffer captureImage composes before encoding it.
CaptureBuffer(preds) ==
  LET snapshot == DrawImage(BlankSurface)
  IN  IF Len(preds) > 0 THEN drawDetections(snapshot, preds) ELSE snapshot

\* A capture button that stays active in Frozen mode.
CaptureButtonShown_Always(paused) == TRUE

\* {!isPaused ? <button onClick={captureImage}> : ... <button disabled>}
CaptureButtonShown(paused) == ~paused

\* A capture that does not check the ready state.
CaptureNotReady_Never(ready) == FALSE

\* if (videoRef.current.readyState !== 4) return
CaptureNotReady(ready) == ~ready

\* captureImage (the capture button carries the handler only while !isPaused).
CaptureImage ==
  /\ mounted
  /\ CaptureButtonShown(isPaused)
  /\ IF CaptureNotReady(videoReady)
       THEN /\ captureLog' = LogNotReady
            /\ UNCHANGED <<capturedImage, isPaused, detectedObjects, loops, effectLoop>>
       ELSE /\ capturedImage' = toDataURL(CaptureBuffer(lastPredictions))
            /\ isPaused' = TRUE
            /\ detectedObjects' = ToDetectedObjects(lastPredictions)
            /\ captureLog' = LogCaptured
            /\ LET eff == LoopEffect(LoopCleanup(loops, effectLoop), model, TRUE)
               IN  /\ loops' = eff[1]
                   /\ effectLoop' = eff[2]
  /\ UNCHANGED <<model, isLoading, initTF, error, isFrontCamera, streamRef, gum,
                 srcObject, videoReady, mounted, lastPredictions, canvas, downloads>>
  /\ UNCHANGED published
  /\ UNCHANGED sizeVars

\* A resume that keeps the captured image.
ResumeCamera_KeepImage ==
  /\ mounted
  /\ isPaused
  /\ model => FreeLoops # {}
  /\ isPaused' = FALSE
  /\ LET eff == LoopEffect(LoopCleanup(loops, effectLoop), model, FALSE)
     IN  /\ loops' = eff[1]
         /\ effectLoop' = eff[2]
  /\ UNCHANGED <<model, isLoading, initTF, error, isFrontCamera, streamRef, gum,
                 srcObject, videoReady, mounted, detectedObjects, lastPredictions,
                 canvas, capturedImage>>
  /\ UNCHANGED outVars
  /\ UNCHANGED published
  /\ UNCHANGED sizeVars

\* resumeCamera (the resume button is rendered only while isPaused).
ResumeCamera ==
  /\ mounted
  /\ isPaused
  /\ model => FreeLoops # {}
  /\ isPaused' = FALSE
  /\ capturedImage' = NoImage
  /\ LET eff == LoopEffect(LoopCleanup(loops, effectLoop), model, FALSE)
     IN  /\ loops' = eff[1]
         /\ effectLoop' = eff[2]
  /\ UNCHANGED <<model, isLoading, initTF, error, isFrontCamera, streamRef, gum,
                 srcObject, videoReady, mounted, detectedObjects, lastPredictions,
                 canvas>>
  /\ UNCHANGED outVars
  /\ UNCHANGED published
  /\ UNCHANGED sizeVars

\* ------------------------------------------------------------------ save
\* What the browser does with a download it was asked for by link.click():
\* it saves the file or silently blocks it; click() returns in both cases.
DownloadOutcomes == {"saved", "blocked"}

\* JSON.stringify({timestamp, detections: detectedObjects}, null, 2): the
\* record, detections in array order (the timestamp is not modelled).
DetectionRecord(detections) == [detections |-> detections]

\* A save that gives up after a blocked image download.
SaveDownloads_StopOnFailure(image, detections, imageOutcome, recordOutcome) ==
  IF imageOutcome = "blocked"
    THEN << [file |-> "png", content |-> image, outcome |-> imageOutcome] >>
    ELSE << [file |-> "png", content |-> image, outcome |-> imageOutcome],
            [file |-> "json", content |-> DetectionRecord(detections),
             outcome |-> recordOutcome] >>

\* The body of saveImage: link.click() for the image, then dataLink.click()
\* for the record.
SaveDownloads(image, detections, imageOutcome, recordOutcome) ==
  << [file |-> "png", content |-> image, outcome |-> imageOutcome],
     [file |-> "json", content |-> DetectionRecord(detections),
      outcome |-> recordOutcome] >>

\* saveImage (the save button is rendered only while isPaused).
SaveImage(imageOutcome, recordOutcome) ==
  /\ mounted
  /\ isPaused
  /\ downloads' = IF capturedImage # NoImage
                    THEN SaveDownloads(capturedImage, detectedObjects,
                                       imageOutcome, recordOutcome)
                    ELSE <<>>
  /\ UNCHANGED <<model, isLoading, initTF, error, isFrontCamera, streamRef, gum,
                 srcObject, videoReady, mounted, detectedObjects, lastPredictions,
                 isPaused, capturedImage, canvas, loops, effectLoop, captureLog>>
  /\ UNCHANGED published
  /\ UNCHANGED sizeVars

\* -------------------------------------------------------------- disposal
\* Unmount: the cleanups of the camera effect and of the loop effect run and
\* React detaches videoRef and canvasRef.
Dispose ==
  /\ mounted
  /\ mounted' = FALSE
  /\ gum' = StopTracks(gum, streamRef)
  /\ loops' = LoopCleanup(loops, effectLoop)
  /\ effectLoop' = 0
  /\ videoReady' = FALSE
  /\ videoSize' = NoVideoSize
  /\ srcObject' = 0
  /\ UNCHANGED <<model, isLoading, initTF, error, isFrontCamera, streamRef,
                 detectedObjects, lastPredictions, isPaused, capturedImage, canvas>>
  /\ UNCHANGED outVars
  /\ UNCHANGED published
  /\ UNCHANGED <<cameras, containerSize, canvasSize, videoStyle, canvasStyle>>

Next ==
  \/ \E r \in ReqIds : GumResolve(r)
  \/ \E r \in ReqIds : GumReject(r)
  \/ HandleToggleCamera
  \/ LoadedMetadata
  \/ VideoCanPlay
  \/ VideoStall
  \/ ModelLoadOk
  \/ ModelLoadFail
  \/ \E l \in LoopIds : LoopTick(l)
  \/ \E l \in LoopIds, p \in DetectionSets : DetectResolve(l, p)
  \/ \E l \in LoopIds : DetectReject(l)
  \/ CaptureImage
  \/ ResumeCamera
  \/ Dispose

Spec == Init /\ [][Next]_vars

\* The session in which the camera is granted once and the user captures,
\* resumes and saves.  saveImage writes nothing but downloads, so Spec leaves
\* it out; SpecSave adds it to the steps that produce Captures.
NextSave ==
  \/ \E r \in ReqIds : GumResolve(r)
  \/ LoadedMetadata
  \/ VideoCanPlay
  \/ ModelLoadOk
  \/ \E l \in LoopIds : LoopTick(l)
  \/ \E l \in LoopIds, p \in DetectionSets : DetectResolve(l, p)
  \/ CaptureImage
  \/ ResumeCamera
  \/ \E i, j \in DownloadOutcomes : SaveImage(i, j)

SpecSave == Init /\ [][NextSave]_vars

\* The camera subsystem and the video element on any device and layout of the
\* enumerated sizes.
InitSizer ==
  /\ InitComponent
  /\ cameras \in [rear : VideoSizes, front : VideoSizes]
  /\ containerSize \in ContainerSizes

NextSizer ==
  \/ \E r \in ReqIds : GumResolve(r)
  \/ \E r \in ReqIds : GumReject(r)
  \/ HandleToggleCamera
  \/ LoadedMetadata
  \/ Dispose

SpecSizer == InitSizer /\ [][NextSizer]_vars

\* The session that stays open on one granted camera: the user captures and
\* resumes, detect calls succeed or fail.  The browser runs every scheduled
\* requestAnimationFrame callback of a visible page and every model.detect
\* promise settles, hence weak fairness on both.
NextLive ==
  \/ \E r \in ReqIds : GumResolve(r)
  \/ LoadedMetadata
  \/ VideoCanPlay
  \/ ModelLoadOk
  \/ \E l \in LoopIds : LoopTick(l)
  \/ \E l \in LoopIds, p \in DetectionSets : DetectResolve(l, p)
  \/ \E l \in LoopIds : DetectReject(l)
  \/ CaptureImage
  \/ ResumeCamera

DetectSettles(l) ==
  \/ \E p \in DetectionSets : DetectResolve(l, p)
  \/ DetectReject(l)

FairLive ==
  \A l \in LoopIds : WF_vars(LoopTick(l)) /\ WF_vars(DetectSettles(l))

SpecLive == Init /\ [][NextLive]_vars /\ FairLive

\* ================================================================ claims

\* C1: no detector invocation (model.detect) is started while Session Mode is
\* Frozen: a step in which a closure enters "inflight" ends with isPaused false.
C1_NoDetectStartWhileFrozen ==
  [][ \A l \in LoopIds :
        (loops[l] # "inflight" /\ loops'[l] = "inflight") => ~isPaused' ]_vars

\* C2: at most one model.detect call is in flight at any time.
C2_AtMostOneDetectInFlight == Cardinality(InFlight) <= 1

\* C3: from a successful capture until resume, the Detection Set stored with
\* the Capture (detectedObjects) does not change.
C3_CaptureDetectionSetFrozen ==
  [][ (isPaused /\ isPaused') => detectedObjects' = detectedObjects ]_vars

\* C4: a successful capture encodes a buffer that holds the video frame and,
\* on top of it, every detection of the last published Detection Set.
C4_CaptureHoldsFrameAndOverlay ==
  [][ (~isPaused /\ isPaused') =>
        /\ capturedImage'.kind = "png"
        /\ capturedImage'.frame
        /\ capturedImage'.boxes = lastPredictions ]_vars

\* C5: when the detect call of the running loop settles in Live mode, also by
\* failing, the loop's next iteration is scheduled (or already in flight).
C5_LoopSurvivesFailedDetect ==
  [][ \A l \in LoopIds :
        (mounted /\ ~isPaused /\ l = effectLoop /\ loops[l] = "inflight")
          => loops'[l] \in {"inflight", "raf"} ]_vars

\* C6: at most one camera stream with un-stopped tracks exists at any time.
C6_AtMostOneOpenStream == Cardinality(OpenStreams) <= 1

\* Requests issued by the step under consideration.
IssuedNow == { q \in ReqIds : gum[q].st = "none" /\ gum'[q].st = "pending" }

\* Request r is rejected by the step under consideration.
RejectedNow(r) == gum[r].st = "pending" /\ gum'[r].st = "failed"

\* C7 (as claimed): for either requested facing mode, a failed first attempt
\* is followed by one attempt with the opposite facing mode, and the camera
\* error is not set by that first failure.
C7_FallbackForEitherMode ==
  [][ \A r \in ReqIds :
        (RejectedNow(r) /\ ~gum[r].fallback) =>
          /\ \E q \in IssuedNow : gum'[q].front = ~gum[r].front
          /\ error' = error ]_vars

\* C7 (amended): a failed rear request is followed by exactly one front
\* request and sets no error; a failed front request (requested directly or
\* as the fallback) issues no further request and sets the camera error while
\* the component is mounted; the camera error is set by no other step.
C7_FallbackFromRearOnly ==
  [][ /\ \A r \in ReqIds :
          RejectedNow(r) =>
            IF ~gum[r].front
              THEN /\ Cardinality(IssuedNow) = 1
                   /\ \A q \in IssuedNow : gum'[q].front /\ gum'[q].fallback
                   /\ error' = error
              ELSE /\ IssuedNow = {}
                   /\ mounted => error' = ErrCamera
      /\ (error' = ErrCamera /\ error # ErrCamera) =>
            \E r \in ReqIds :
              /\ RejectedNow(r)
              /\ gum[r].front
              /\ gum[r].fallback =>
                    \E q \in ReqIds : gum[q].st = "failed" /\ ~gum[q].front ]_vars

\* C7 witness: a rear request and its front fallback have both failed and the
\* camera error is shown.
C7_Witness ==
  /\ error = ErrCamera
  /\ \E r, q \in ReqIds :
        /\ gum[r].st = "failed" /\ ~gum[r].front
        /\ gum[q].st = "failed" /\ gum[q].front /\ gum[q].fallback

\* C8: when the acquisition started by handleToggleCamera settles and no
\* acquisition is pending afterwards: on success exactly one stream is open,
\* it is streamRef's, and the error slot is clear; on terminal failure the
\* error slot is set and no stream is open.
C8_ToggleLeavesOneStream ==
  [][ \A r \in ReqIds :
        (mounted /\ gum[r].toggle /\ gum[r].st = "pending" /\ Pending' = {}) =>
          /\ gum'[r].st = "live" =>
                OpenStreams' = {r} /\ streamRef' = r /\ error' = NoError
          /\ gum'[r].st = "failed" =>
                OpenStreams' = {} /\ error' = ErrCamera ]_vars

\* C9: after disposal, once no getUserMedia request is pending, no camera
\* stream has running tracks.
C9_NoOpenStreamAfterDispose ==
  (~mounted /\ Pending = {}) => OpenStreams = {}

\* C10: after disposal the Detection Loop is Stopped: no closure has an
\* iteration scheduled and no closure starts a detector invocation.
C10_LoopStoppedAfterDispose ==
  [][ ~mounted' =>
        \A l \in LoopIds :
          /\ loops'[l] # "raf"
          /\ loops'[l] = "inflight" => loops[l] = "inflight" ]_vars

\* C11: once the model load has failed with message M (the component still
\* mounted), isLoading is false, no detectObjects closure was ever created,
\* and the error slot shows M.
C11_LoadErrorStaysShown ==
  (mounted /\ initTF = "done" /\ ~model) =>
    /\ ~isLoading
    /\ \A l \in LoopIds : loops[l] = "none"
    /\ error = ErrLoad

\* C12: a captureImage call made while the video has no playable frame only
\* logs "not ready": Session Mode, the captured image, the Detection Set, the
\* last predictions, the error slot and the loop are left unchanged.
C12_NotReadyCaptureChangesNothing ==
  [][ (CaptureImage /\ ~videoReady) =>
        /\ captureLog' = LogNotReady
        /\ UNCHANGED <<isPaused, capturedImage, detectedObjects, lastPredictions,
                       error, canvas, loops, effectLoop>> ]_vars

\* C12 witness: a capture was attempted without a playable frame and the
\* session is still Live with no Capture.
C12_Witness ==
  captureLog = LogNotReady /\ ~videoReady /\ ~isPaused /\ capturedImage = NoImage

\* C13: in Frozen mode no step is a captureImage call, and as long as the
\* session stays Frozen the Capture's image is the original one.
C13_CaptureIgnoredWhileFrozen ==
  [][ isPaused =>
        /\ ~CaptureImage
        /\ isPaused' => capturedImage' = capturedImage ]_vars

\* C13 witness: Frozen with a Capture, and the last predictions have moved on
\* from the ones baked into it, so that a second capture would replace it.
C13_Witness ==
  /\ isPaused
  /\ capturedImage # NoImage
  /\ capturedImage.boxes # lastPredictions

\* C14: every successful capture stores the Detection Set the loop published
\* last before that capture, field by field and in order, in the Detection Set
\* of the Capture and in the overlay of its image.
C14_CaptureStoresLastPublished ==
  [][ (~isPaused /\ isPaused') =>
        /\ Len(detectedObjects') = Len(published)
        /\ \A i \in DOMAIN published :
              /\ detectedObjects'[i].class = published[i].class
              /\ detectedObjects'[i].score = published[i].score
              /\ detectedObjects'[i].bbox = published[i].bbox
        /\ capturedImage'.boxes = published ]_vars

\* C14 witness: a second capture, taken after a resume that restarted the
\* loop, holds a non-empty Detection Set.
C14_Witness ==
  /\ isPaused
  /\ \A l \in LoopIds : l <= 2 => loops[l] # "none"
  /\ published # <<>>
  /\ capturedImage # NoImage
  /\ capturedImage.boxes = published

\* C15: a Capture exists exactly when the session is Frozen.
C15_CaptureIffFrozen == (capturedImage # NoImage) <=> isPaused

\* C15 witness: after a successful capture and a resume the session is Live
\* again and the Capture is gone.
C15_Witness == captureLog = LogCaptured /\ ~isPaused /\ capturedImage = NoImage

\* C16: saveImage with a Capture asks for two downloads, the Capture's image
\* and a record whose detections are the Detection Set the Capture was taken
\* with (the one drawn into its image), in order.
C16_SaveExportsCaptureSet ==
  [][ \A i, j \in DownloadOutcomes :
        (SaveImage(i, j) /\ capturedImage # NoImage) =>
          /\ Len(downloads') = 2
          /\ downloads'[1].file = "png"
          /\ downloads'[1].content = capturedImage
          /\ downloads'[2].file = "json"
          /\ downloads'[2].content.detections = ToDetectedObjects(capturedImage.boxes) ]_vars

\* C17: whatever the browser does with either download, one saveImage call
\* asks for the image exactly once and for the record exactly once.
C17_DownloadsIndependent ==
  [][ \A i, j \in DownloadOutcomes :
        (SaveImage(i, j) /\ capturedImage # NoImage) =>
          /\ Cardinality({ k \in DOMAIN downloads' : downloads'[k].file = "png" }) = 1
          /\ Cardinality({ k \in DOMAIN downloads' : downloads'[k].file = "json" }) = 1
          /\ \A k \in DOMAIN downloads' :
                downloads'[k].outcome = IF downloads'[k].file = "png" THEN i ELSE j ]_vars

\* C17 witness: the image download was blocked and the record was still
\* asked for, and saved.
C17_Witness ==
  /\ Len(downloads) = 2
  /\ downloads[1].file = "png" /\ downloads[1].outcome = "blocked"
  /\ downloads[2].file = "json" /\ downloads[2].outcome = "saved"

\* C18 (as claimed): whenever the session holds a stream with running tracks,
\* the canvas's intrinsic size is that stream's native size.
C18_CanvasMatchesActiveStream ==
  (mounted /\ streamRef # 0 /\ gum[streamRef].st = "live") =>
    canvasSize = NativeSize(streamRef)

\* C18 (amended): whenever the video element has loaded the metadata of its
\* current stream, the canvas's intrinsic size is that stream's native size.
C18_CanvasMatchesLoadedStream ==
  (mounted /\ videoSize # NoVideoSize) =>
    /\ srcObject # 0
    /\ videoSize = NativeSize(srcObject)
    /\ canvasSize = NativeSize(srcObject)

\* C18 witness: after a switch from the rear camera to a front camera of
\* another resolution, the canvas has the front camera's resolution.
C18_Witness ==
  /\ mounted
  /\ videoSize # NoVideoSize
  /\ gum[srcObject].front
  /\ cameras.front # cameras.rear
  /\ canvasSize = cameras.front
  /\ \E r \in ReqIds : ~gum[r].front /\ gum[r].st = "stopped"

\* C19: once the metadata is loaded, the display size applied to the video
\* fits the container on both axes, fills it on one, keeps the ratio of the
\* native size and is also the canvas's display size; the canvas's intrinsic
\* size is the native size; 1920 x 1080 in 800 x 600 is shown at 800 x 450.
C19_SurfaceSizerFits ==
  (mounted /\ videoSize # NoVideoSize) =>
    /\ RatLeq(videoStyle[1], <<containerSize[1], 1>>)
    /\ RatLeq(videoStyle[2], <<containerSize[2], 1>>)
    /\ \/ videoStyle[1] = <<containerSize[1], 1>>
       \/ videoStyle[2] = <<containerSize[2], 1>>
    /\ videoStyle[1][1] * videoStyle[2][2] * videoSize[2]
          = videoStyle[2][1] * videoStyle[1][2] * videoSize[1]
    /\ canvasStyle = videoStyle
    /\ canvasSize = videoSize
    /\ (videoSize = <<1920, 1080>> /\ containerSize = <<800, 600>>) =>
          /\ videoStyle = << <<800, 1>>, <<450, 1>> >>
          /\ canvasSize = <<1920, 1080>>

\* C19 witness: the worked example has been sized.
C19_Witness ==
  /\ mounted
  /\ videoSize = ExampleVideo
  /\ containerSize = ExampleContainer
  /\ videoStyle = << <<800, 1>>, <<450, 1>> >>

\* C20: in a step that issues a getUserMedia request, the stream held in
\* streamRef at that moment has no running track once the request is out.
C20_HeldStreamStoppedBeforeRequest ==
  [][ (IssuedNow # {} /\ streamRef # 0) => gum'[streamRef].st # "live" ]_vars

\* C20 witness: the component is mounted, a request is pending and the stream
\* held when it was issued is stopped.
C20_Witness ==
  /\ mounted
  /\ Pending # {}
  /\ streamRef # 0
  /\ gum[streamRef].st = "stopped"

\* C21: a resume ends Live with no Capture and, when the model is loaded and
\* the video has a playable frame, with a detector invocation of a new closure
\* in flight, also when every earlier closure had stopped; and from any Live
\* state after a resume with a loaded model, the closure of the current effect
\* comes to have published a Detection Set (it waits for its next frame),
\* unless its invocation was rejected or the user has frozen again.
AfterResume == mounted /\ ~isPaused /\ captureLog = LogCaptured

C22_FacingFlagMatchesHeldStream ==
  (mounted /\ Pending = {} /\ streamRef # 0 /\ gum[streamRef].st = "live") =>
    isFrontCamera = gum[streamRef].front
====
